---- MODULE Spec2Model ----
(***************************************************************************)
(* The marketplace schema of models.py (users, shops, categories,          *)
(* products, orders, reviews and the product_order linking table) and the  *)
(* units of work of database.py (sessions made by sessionmaker over one    *)
(* PostgreSQL engine).                                                     *)
(*                                                                         *)
(* A table is the set of its rows; product_order, which declares neither a *)
(* primary key nor a unique constraint, is a bag of rows.  Every session   *)
(* holds the rows it has written and not yet committed; a statement is     *)
(* checked against the constraints the Column declarations state           *)
(* (nullable=False, ForeignKey, Enum) the moment it is executed, and a     *)
(* violation rolls the session's transaction back.                         *)
(*                                                                         *)
(* String values of the source that are not ASCII are transliterated.      *)
(***************************************************************************)
EXTENDS Integers, FiniteSets, Bags, TLC

VARIABLES db, work, error, nextid

vars == <<db, work, error, nextid>>

(***************************************************************************)
(* Bounds of the model                                                     *)
(***************************************************************************)
MaxUsers == 1
MaxShops == 2
MaxCategories == 1
MaxProducts == 2
MaxOrders == 2
MaxReviews == 1
MaxLinks == 3

\* The units of work open at the same time: session() called twice.
Sessions == {"s1", "s2"}

(***************************************************************************)
(* Values                                                                  *)
(***************************************************************************)
\* NULL in an Integer column (ids start at 1); None in any other column, and
\* the Python None of an attribute that was never set.
NULL == 0
None == "None"

\* class UserRoleEnum: SELLER, BUYER, ADMIN and their (transliterated) values.
\* Both classes derive from the Enum column type of sqlalchemy, not from the
\* enum.Enum of Python; they are modelled as the enumerations their bodies list.
UserRoleEnum ==
  [SELLER |-> "prodavets", BUYER |-> "pokupatel", ADMIN |-> "administrator"]

\* class OrderStatusEnum: NEW, PROCESSING, SHIPPED, DELIVERED and their values.
OrderStatusEnum ==
  [NEW |-> "novyi", PROCESSING |-> "v obrabotke", SHIPPED |-> "otpravlen",
   DELIVERED |-> "dostavlen"]

\* The labels of the database enum type that Enum(cls) declares for an
\* enumerated class: the NAMES of the members, not their values.
EnumLabels(cls) == DOMAIN cls

\* user_role = Column(Enum(UserRoleEnum), default=<the value of BUYER>)
UserRoleDefault == UserRoleEnum.BUYER

\* order_status = Column(Enum(OrderStatusEnum), default=<the value of NEW>)
OrderStatusDefault == OrderStatusEnum.NEW

\* A column default is used when the attribute is None at INSERT.
WithDefault(value, default) == IF value = None THEN default ELSE value

\* What an Enum column accepts: NULL (the column is nullable) or a label.
EnumOk(cls, value) == value = None \/ value \in EnumLabels(cls)

(***************************************************************************)
(* Tables                                                                  *)
(***************************************************************************)
TableNames == {"users", "shops", "categories", "products", "orders", "reviews"}

EmptyTables ==
  [users |-> {}, shops |-> {}, categories |-> {}, products |-> {},
   orders |-> {}, reviews |-> {}, product_order |-> EmptyBag]

Ids(rows) == {r.id : r \in rows}

\* A row written by a transaction replaces the committed row of the same id.
Put(rows, row) == {r \in rows : r.id # row.id} \cup {row}

Overlay(d, w) ==
  [t \in TableNames \cup {"product_order"} |->
     IF t = "product_order"
     THEN d[t] (+) w[t]
     ELSE {r \in d[t] : r.id \notin Ids(w[t])} \cup w[t]]

\* What session s reads: the committed rows and its own uncommitted writes.
View(s) == Overlay(db, work[s])

\* ForeignKey('<table>.id'): NULL, or the id of a row the session can see.
ReferencesUnchecked(v, table, id) == TRUE
References(v, table, id) == id = NULL \/ id \in Ids(v[table])

\* A row another open transaction has updated is locked until it ends.
Locked(s, table, id) == \E t \in Sessions \ {s} : id \in Ids(work[t][table])

(***************************************************************************)
(* The outcome of a statement                                              *)
(***************************************************************************)
\* The statement succeeds: the session's transaction holds the new rows.
Ok(s, w) ==
  /\ work' = [work EXCEPT ![s] = w]
  /\ UNCHANGED <<db, error>>

\* The statement violates a constraint: the transaction is rolled back and the
\* session refuses further work until rollback() is called.
FailKeep(s, e) ==
  /\ error' = [error EXCEPT ![s] = e]
  /\ UNCHANGED <<db, work>>
Fail(s, e) ==
  /\ work' = [work EXCEPT ![s] = EmptyTables]
  /\ error' = [error EXCEPT ![s] = e]
  /\ UNCHANGED db

\* nextval() of the id sequence of a table; it is not undone by a rollback.
Take(table) == nextid' = [nextid EXCEPT ![table] = @ + 1]

(***************************************************************************)
(* users                                                                   *)
(***************************************************************************)
NameInputs == {"Ana", None}
EmailInputs == {"a@x.com", None}
UserRoleInputs == EnumLabels(UserRoleEnum) \cup {"bogus", None}

\* session.add(User(name=, email=, user_role=)) and its flush
AddUser(s, name, email, user_role) ==
  LET role == WithDefault(user_role, UserRoleDefault)
      row == [id |-> nextid.users, name |-> name, email |-> email,
              user_role |-> role]
  IN /\ error[s] = "ok"
     /\ nextid.users <= MaxUsers
     /\ IF ~EnumOk(UserRoleEnum, role)
        THEN Fail(s, "InvalidEnum:users.user_role") /\ UNCHANGED nextid
        ELSE /\ Take("users")
             /\ IF name = None THEN Fail(s, "NotNull:users.name")
                ELSE IF email = None THEN Fail(s, "NotNull:users.email")
                ELSE Ok(s, [work[s] EXCEPT !.users = Put(@, row)])

\* user.user_role = value, and its flush
SetUserRole(s, id, user_role) ==
  /\ error[s] = "ok"
  /\ id \in Ids(View(s).users)
  /\ ~Locked(s, "users", id)
  /\ LET old == CHOOSE r \in View(s).users : r.id = id
     IN /\ old.user_role # user_role
        /\ IF ~EnumOk(UserRoleEnum, user_role)
           THEN Fail(s, "InvalidEnum:users.user_role")
           ELSE Ok(s, [work[s] EXCEPT
                         !.users = Put(@, [old EXCEPT !.user_role = user_role])])
  /\ UNCHANGED nextid

(***************************************************************************)
(* shops                                                                   *)
(***************************************************************************)
RatingInputs == {"0.0", None}

\* session.add(Shop(name=, email=, rating=, user_id=)) and its flush
AddShop(s, name, email, rating, user_id) ==
  LET row == [id |-> nextid.shops, name |-> name, email |-> email,
              rating |-> rating, user_id |-> user_id]
  IN /\ error[s] = "ok"
     /\ nextid.shops <= MaxShops
     /\ Take("shops")
     /\ IF name = None THEN Fail(s, "NotNull:shops.name")
        ELSE IF email = None THEN Fail(s, "NotNull:shops.email")
        ELSE IF rating = None THEN Fail(s, "NotNull:shops.rating")
        ELSE IF ~References(View(s), "users", user_id)
        THEN Fail(s, "ForeignKey:shops.user_id")
        ELSE Ok(s, [work[s] EXCEPT !.shops = Put(@, row)])

\* shop.user_id = value (shop.owner = user), and its flush
SetShopOwner(s, id, user_id) ==
  /\ error[s] = "ok"
  /\ id \in Ids(View(s).shops)
  /\ ~Locked(s, "shops", id)
  /\ LET old == CHOOSE r \in View(s).shops : r.id = id
     IN /\ old.user_id # user_id
        /\ IF ~References(View(s), "users", user_id)
           THEN Fail(s, "ForeignKey:shops.user_id")
           ELSE Ok(s, [work[s] EXCEPT
                         !.shops = Put(@, [old EXCEPT !.user_id = user_id])])
  /\ UNCHANGED nextid

(***************************************************************************)
(* categories                                                              *)
(***************************************************************************)
CategoryNameInputs == {"Books", None}
SlugInputs == {"books", None}

\* session.add(Category(name=, slug=)) and its flush
AddCategory(s, name, slug) ==
  LET row == [id |-> nextid.categories, name |-> name, slug |-> slug]
  IN /\ error[s] = "ok"
     /\ nextid.categories <= MaxCategories
     /\ Take("categories")
     /\ IF name = None THEN Fail(s, "NotNull:categories.name")
        ELSE IF slug = None THEN Fail(s, "NotNull:categories.slug")
        ELSE Ok(s, [work[s] EXCEPT !.categories = Put(@, row)])

(***************************************************************************)
(* products                                                                *)
(***************************************************************************)
ProductNameInputs == {"Novel", None}
PriceInputs == {"9.99", None}

\* session.add(Product(name=, price=, rating=, shop_id=, category_id=)) and
\* its flush
AddProduct(s, name, price, rating, shop_id, category_id) ==
  LET row == [id |-> nextid.products, name |-> name, price |-> price,
              rating |-> rating, shop_id |-> shop_id,
              category_id |-> category_id]
  IN /\ error[s] = "ok"
     /\ nextid.products <= MaxProducts
     /\ Take("products")
     /\ IF name = None THEN Fail(s, "NotNull:products.name")
        ELSE IF price = None THEN Fail(s, "NotNull:products.price")
        ELSE IF rating = None THEN Fail(s, "NotNull:products.rating")
        ELSE IF ~References(View(s), "shops", shop_id)
        THEN Fail(s, "ForeignKey:products.shop_id")
        ELSE IF ~References(View(s), "categories", category_id)
        THEN Fail(s, "ForeignKey:products.category_id")
        ELSE Ok(s, [work[s] EXCEPT !.products = Put(@, row)])

(***************************************************************************)
(* orders                                                                  *)
(***************************************************************************)
OrderStatusInputs == EnumLabels(OrderStatusEnum) \cup {"bogus", None}

\* session.add(Order(order_status=, user_id=)) and its flush
AddOrder(s, order_status, user_id) ==
  LET status == WithDefault(order_status, OrderStatusDefault)
      row == [id |-> nextid.orders, order_status |-> status,
              user_id |-> user_id]
  IN /\ error[s] = "ok"
     /\ nextid.orders <= MaxOrders
     /\ IF ~EnumOk(OrderStatusEnum, status)
        THEN Fail(s, "InvalidEnum:orders.order_status") /\ UNCHANGED nextid
        ELSE /\ Take("orders")
             /\ IF ~References(View(s), "users", user_id)
                THEN Fail(s, "ForeignKey:orders.user_id")
                ELSE Ok(s, [work[s] EXCEPT !.orders = Put(@, row)])

\* order.order_status = value, and its flush
SetOrderStatus(s, id, order_status) ==
  /\ error[s] = "ok"
  /\ id \in Ids(View(s).orders)
  /\ ~Locked(s, "orders", id)
  /\ LET old == CHOOSE r \in View(s).orders : r.id = id
     IN /\ old.order_status # order_status
        /\ IF ~EnumOk(OrderStatusEnum, order_status)
           THEN Fail(s, "InvalidEnum:orders.order_status")
           ELSE Ok(s, [work[s] EXCEPT
                         !.orders =
                            Put(@, [old EXCEPT !.order_status = order_status])])
  /\ UNCHANGED nextid

(***************************************************************************)
(* reviews                                                                 *)
(***************************************************************************)
\* session.add(Review(review_text=, user_id=, product_id=)) and its flush
AddReview(s, review_text, user_id, product_id) ==
  LET row == [id |-> nextid.reviews, review_text |-> review_text,
              user_id |-> user_id, product_id |-> product_id]
  IN /\ error[s] = "ok"
     /\ nextid.reviews <= MaxReviews
     /\ Take("reviews")
     /\ IF ~References(View(s), "users", user_id)
        THEN Fail(s, "ForeignKey:reviews.user_id")
        ELSE IF ~References(View(s), "products", product_id)
        THEN Fail(s, "ForeignKey:reviews.product_id")
        ELSE Ok(s, [work[s] EXCEPT !.reviews = Put(@, row)])

(***************************************************************************)
(* product_order and the two relationships over it                         *)
(***************************************************************************)
\* INSERT INTO product_order (product_id, order_id), which a flush emits for
\* an object appended to a collection that did not hold it when it was loaded:
\* the table has no key, so nothing but the two foreign keys is checked.
InsertLink(s, product_id, order_id) ==
  LET row == [product_id |-> product_id, order_id |-> order_id]
  IN /\ error[s] = "ok"
     /\ BagCardinality(View(s).product_order) < MaxLinks
     /\ IF ~References(View(s), "products", product_id)
        THEN Fail(s, "ForeignKey:product_order.product_id")
        ELSE IF ~References(View(s), "orders", order_id)
        THEN Fail(s, "ForeignKey:product_order.order_id")
        ELSE Ok(s, [work[s] EXCEPT !.product_order = @ (+) SetToBag({row})])
     /\ UNCHANGED nextid

\* order.ordered_products.append(product), and its flush.  The collection is
\* not kept in step with product.orders (Product.orders names the backref
\* 'order', not 'ordered_products'), so each of the two emits its own INSERT.
AppendOrderedProduct(s, order_id, product_id) == InsertLink(s, product_id, order_id)

\* product.orders.append(order), and its flush
AppendProductOrder(s, product_id, order_id) == InsertLink(s, product_id, order_id)

\* Order.ordered_products: the products joined to the order through product_order
ordered_products_swapped(d, order_id) ==
  {p \in d.products :
     \E l \in BagToSet(d.product_order) :
        l.product_id = order_id /\ l.order_id = p.id}
ordered_products(d, order_id) ==
  {p \in d.products :
     \E l \in BagToSet(d.product_order) :
        l.order_id = order_id /\ l.product_id = p.id}

\* Product.orders: the orders joined to the product through product_order
orders_swapped(d, product_id) ==
  {o \in d.orders :
     \E l \in BagToSet(d.product_order) :
        l.product_id = o.id /\ l.order_id = product_id}
orders(d, product_id) ==
  {o \in d.orders :
     \E l \in BagToSet(d.product_order) :
        l.product_id = product_id /\ l.order_id = o.id}

(***************************************************************************)
(* The end of a unit of work                                               *)
(***************************************************************************)
\* session.commit(): every write of the transaction becomes visible at once.
Commit(s) ==
  /\ error[s] = "ok"
  /\ work[s] # EmptyTables
  /\ db' = Overlay(db, work[s])
  /\ work' = [work EXCEPT ![s] = EmptyTables]
  /\ UNCHANGED <<error, nextid>>

\* session.rollback(): the writes are discarded and the session is usable again.
Rollback(s) ==
  /\ error[s] # "ok" \/ work[s] # EmptyTables
  /\ work' = [work EXCEPT ![s] = EmptyTables]
  /\ error' = [error EXCEPT ![s] = "ok"]
  /\ UNCHANGED <<db, nextid>>

(***************************************************************************)
(* Specifications                                                          *)
(***************************************************************************)
Init ==
  /\ db = EmptyTables
  /\ work = [s \in Sessions |-> EmptyTables]
  /\ error = [s \in Sessions |-> "ok"]
  /\ nextid = [t \in TableNames |-> 1]

\* One unit of work at a time, for the specifications about what is stored.
OneSession == {"s1"}

\* The steps of a specification: the statements of the sessions of S, with
\* their inputs drawn from the given sets.
AddUserStep(S, names, emails, roles) ==
  \E s \in S, name \in names, email \in emails, user_role \in roles :
     AddUser(s, name, email, user_role)

SetUserRoleStep(S) ==
  \E s \in S, id \in 1..MaxUsers, user_role \in UserRoleInputs :
     SetUserRole(s, id, user_role)

AddShopStep(S, names, emails, ratings, users) ==
  \E s \in S, name \in names, email \in emails, rating \in ratings,
     user_id \in users :
       AddShop(s, name, email, rating, user_id)

SetShopOwnerStep(S) ==
  \E s \in S, id \in 1..MaxShops, user_id \in 0..MaxUsers :
     SetShopOwner(s, id, user_id)

AddCategoryStep(S) ==
  \E s \in S, name \in CategoryNameInputs, slug \in SlugInputs :
     AddCategory(s, name, slug)

AddProductStep(S, names, prices, ratings, shops, categories) ==
  \E s \in S, name \in names, price \in prices, rating \in ratings,
     shop_id \in shops, category_id \in categories :
       AddProduct(s, name, price, rating, shop_id, category_id)

AddOrderStep(S, statuses, users) ==
  \E s \in S, order_status \in statuses, user_id \in users :
     AddOrder(s, order_status, user_id)

SetOrderStatusStep(S) ==
  \E s \in S, id \in 1..MaxOrders, order_status \in OrderStatusInputs :
     SetOrderStatus(s, id, order_status)

AddReviewStep(S) ==
  \E s \in S, user_id \in 0..MaxUsers, product_id \in 0..MaxProducts :
     AddReview(s, "good", user_id, product_id)

AppendOrderedProductStep(S) ==
  \E s \in S, order_id \in 1..MaxOrders, product_id \in 1..MaxProducts :
     AppendOrderedProduct(s, order_id, product_id)

AppendProductOrderStep(S) ==
  \E s \in S, product_id \in 1..MaxProducts, order_id \in 1..MaxOrders :
     AppendProductOrder(s, product_id, order_id)

CommitStep(S) == \E s \in S : Commit(s)

RollbackStep(S) == \E s \in S : Rollback(s)

\* Users and the shops they own, in two concurrent units of work.
NextAccounts ==
  \/ AddUserStep(Sessions, NameInputs, EmailInputs, {"BUYER", "bogus", None})
  \/ AddShopStep(Sessions, NameInputs, EmailInputs, RatingInputs, 0..MaxUsers)
  \/ SetShopOwnerStep(Sessions)
  \/ CommitStep(Sessions)
  \/ RollbackStep(Sessions)

SpecAccounts == Init /\ [][NextAccounts]_vars

\* Shops, categories and the products that belong to them.
NextCatalog ==
  \/ AddShopStep(OneSession, {"Ana"}, {"a@x.com"}, RatingInputs, {NULL})
  \/ AddCategoryStep(OneSession)
  \/ AddProductStep(OneSession, ProductNameInputs, {"9.99"}, {"0.0"},
                    0..MaxShops, 0..MaxCategories)
  \/ CommitStep(OneSession)
  \/ RollbackStep(OneSession)

SpecCatalog == Init /\ [][NextCatalog]_vars

\* Users, products and the reviews that refer to them.
NextReviews ==
  \/ AddUserStep(OneSession, NameInputs, {"a@x.com"}, {"BUYER"})
  \/ AddProductStep(OneSession, {"Novel"}, PriceInputs, {"0.0"}, {NULL}, {NULL})
  \/ AddReviewStep(OneSession)
  \/ CommitStep(OneSession)
  \/ RollbackStep(OneSession)

SpecReviews == Init /\ [][NextReviews]_vars

\* Every entity that belongs to another one.
NextReferences ==
  \/ AddUserStep(OneSession, {"Ana"}, {"a@x.com"}, {"BUYER"})
  \/ AddShopStep(OneSession, {"Ana"}, {"a@x.com"}, {"0.0"}, 0..MaxUsers)
  \/ AddProductStep(OneSession, {"Novel"}, {"9.99"}, {"0.0"},
                    0..MaxShops, 0..MaxCategories)
  \/ AddOrderStep(OneSession, {"NEW"}, 0..MaxUsers)
  \/ AddReviewStep(OneSession)
  \/ CommitStep(OneSession)
  \/ RollbackStep(OneSession)

SpecReferences == Init /\ [][NextReferences]_vars

\* Products, orders and the links between them.
NextOrders ==
  \/ AddProductStep(OneSession, {"Novel"}, {"9.99"}, RatingInputs, {NULL}, {NULL})
  \/ AddOrderStep(OneSession, {"NEW"}, 0..MaxUsers)
  \/ AppendOrderedProductStep(OneSession)
  \/ AppendProductOrderStep(OneSession)
  \/ CommitStep(OneSession)
  \/ RollbackStep(OneSession)

SpecOrders == Init /\ [][NextOrders]_vars

\* The two enumerated columns.
NextEnums ==
  \/ AddUserStep(OneSession, {"Ana"}, {"a@x.com"}, UserRoleInputs)
  \/ SetUserRoleStep(OneSession)
  \/ AddOrderStep(OneSession, OrderStatusInputs, 0..MaxUsers)
  \/ SetOrderStatusStep(OneSession)
  \/ CommitStep(OneSession)
  \/ RollbackStep(OneSession)

SpecEnums == Init /\ [][NextEnums]_vars

(***************************************************************************)
(* The properties of the schema and of the units of work                   *)
(***************************************************************************)

\* C1: every user id is the user_id of at most one committed shop row.
OneShopPerUser ==
  \A a, b \in db.shops :
     (a.user_id # NULL /\ a.user_id = b.user_id) => a.id = b.id

\* C2: adding a product, its required fields given, whose shop_id or
\* category_id names no shop or category the session can see fails the unit
\* of work with the foreign key's error: the committed rows are unchanged and
\* every write of the unit is discarded.
ProductOfMissingShopOrCategoryFails ==
  [][\A s \in Sessions, shop_id \in 0..MaxShops,
        category_id \in 0..MaxCategories :
       (/\ nextid'.products # nextid.products
        /\ error'[s] # error[s] \/ work'[s] # work[s]
        /\ \/ shop_id # NULL /\ shop_id \notin Ids(View(s).shops)
           \/ category_id # NULL /\ category_id \notin Ids(View(s).categories)
        /\ AddProduct(s, "Novel", "9.99", "0.0", shop_id, category_id))
       => /\ error'[s] \in {"ForeignKey:products.shop_id",
                            "ForeignKey:products.category_id"}
          /\ db' = db
          /\ work'[s] = EmptyTables]_vars

\* C2 happens: a unit of work has failed on a product's category_id while a
\* shop and a product are committed.
ProductForeignKeyFailed ==
  /\ error.s1 = "ForeignKey:products.category_id"
  /\ db.shops # {}
  /\ db.products # {}

\* C3: adding a review whose user_id or product_id names no user or product
\* the session can see fails the unit of work with the foreign key's error:
\* the committed rows are unchanged and every write of the unit is discarded.
ReviewOfMissingUserOrProductFails ==
  [][\A s \in Sessions, user_id \in 0..MaxUsers, product_id \in 0..MaxProducts :
       (/\ error'[s] # error[s] \/ work'[s] # work[s]
        /\ \/ user_id # NULL /\ user_id \notin Ids(View(s).users)
           \/ product_id # NULL /\ product_id \notin Ids(View(s).products)
        /\ AddReview(s, "good", user_id, product_id))
       => /\ error'[s] \in {"ForeignKey:reviews.user_id",
                            "ForeignKey:reviews.product_id"}
          /\ db' = db
          /\ work'[s] = EmptyTables]_vars

\* C3 happens: a unit of work failed on a review's product_id while a user and
\* a product are committed.
ReviewForeignKeyFailed ==
  /\ error.s1 = "ForeignKey:reviews.product_id"
  /\ db.users # {}
  /\ db.products # {}

\* C4: every committed product names an existing shop and an existing
\* category, every committed review an existing user and an existing product,
\* every committed order an existing user.
EveryOwningReferenceIsSet ==
  /\ \A p \in db.products :
        p.shop_id \in Ids(db.shops) /\ p.category_id \in Ids(db.categories)
  /\ \A r \in db.reviews :
        r.user_id \in Ids(db.users) /\ r.product_id \in Ids(db.products)
  /\ \A o \in db.orders : o.user_id \in Ids(db.users)

\* C5: a statement that violates a constraint (a required field that is None,
\* a foreign key naming a row the session cannot see, a value that is not a
\* member of the enumeration) never leaves the session out of error; a session
\* entering error changes no committed row and loses all its writes, the
\* earlier valid ones included; the committed rows change only by one session
\* committing all of its writes at once; and no session's write refers to a
\* row that only another session's uncommitted writes hold.
UnitOfWorkIsAtomicAndIsolated ==
  [][/\ \A s \in Sessions :
          (error'[s] = "ok" /\ (work'[s] # work[s] \/ nextid' # nextid))
          => /\ \A name \in NameInputs, email \in EmailInputs,
                   user_role \in {"BUYER", "bogus"} :
                  (name = None \/ email = None \/ user_role = "bogus")
                  => ~AddUser(s, name, email, user_role)
             /\ \A name \in NameInputs, email \in EmailInputs,
                   rating \in RatingInputs, user_id \in 0..MaxUsers :
                  (\/ name = None \/ email = None \/ rating = None
                   \/ user_id # NULL /\ user_id \notin Ids(View(s).users))
                  => ~AddShop(s, name, email, rating, user_id)
     /\ \A s \in Sessions :
          (error[s] = "ok" /\ error'[s] # "ok")
          => (db' = db /\ work'[s] = EmptyTables)
     /\ db' # db
          => \E s \in Sessions :
                /\ error[s] = "ok" /\ error'[s] = "ok"
                /\ db' = Overlay(db, work[s])
                /\ work'[s] = EmptyTables
     /\ \A s \in Sessions :
          \A r \in work'[s].shops :
             r.user_id = NULL \/ r.user_id \in Ids(db'.users \cup work'[s].users)
    ]_vars

\* C5 happens: a unit of work has failed while another one holds uncommitted
\* writes and rows are committed.
UnitOfWorkFailedBesideAnother ==
  /\ error.s1 \in {"NotNull:users.name", "ForeignKey:shops.user_id",
                   "InvalidEnum:users.user_role"}
  /\ work.s2.shops # {}
  /\ work.s2.users # {}
  /\ db.shops # {}

\* The products that the rows of product_order link to an order.
LinkedProducts(d, order_id) ==
  {l.product_id : l \in {x \in BagToSet(d.product_order) : x.order_id = order_id}}

OneRowPerLinkedPair ==
  \A l \in BagToSet(db.product_order) : CopiesIn(l, db.product_order) <= 1

\* C8: a user added without a role is stored with the role BUYER and an order
\* added without a status with the status NEW; a member that is given is
\* stored as given.
DefaultRoleAndStatusAreStored ==
  [][/\ \A s \in Sessions, user_role \in EnumLabels(UserRoleEnum) \cup {None} :
          AddUser(s, "Ana", "a@x.com", user_role)
          => \E u \in work'[s].users :
                /\ u.id = nextid.users
                /\ u.user_role = IF user_role = None THEN "BUYER" ELSE user_role
     /\ \A s \in Sessions,
           order_status \in EnumLabels(OrderStatusEnum) \cup {None} :
          AddOrder(s, order_status, NULL)
          => \E o \in work'[s].orders :
                /\ o.id = nextid.orders
                /\ o.order_status =
                      IF order_status = None THEN "NEW" ELSE order_status
    ]_vars

\* C9: every committed user's role is a member of UserRoleEnum and every
\* committed order's status a member of OrderStatusEnum, and setting either
\* to a value that is not a member fails and changes no committed row.
EnumColumnsHoldMembersOnly ==
  [][/\ \A u \in db'.users : u.user_role \in EnumLabels(UserRoleEnum)
     /\ \A o \in db'.orders : o.order_status \in EnumLabels(OrderStatusEnum)
     /\ \A s \in Sessions, id \in 1..MaxOrders :
          (error'[s] = "ok" \/ db' # db) => ~SetOrderStatus(s, id, "bogus")
     /\ \A s \in Sessions, id \in 1..MaxUsers :
          (error'[s] = "ok" \/ db' # db) => ~SetUserRole(s, id, "bogus")
    ]_vars

====
